---- MODULE Spec2Model ----
(***************************************************************************)
(* Model of the Blynk protocol engine of src/BlinkLibPatched.py            *)
(* (EventEmitter, BlynkProtocol, Blynk) as driven by src/Gatecontroller.py.*)
(*                                                                         *)
(* Bytes are integers 0..255, byte strings are sequences of bytes, text is *)
(* a sequence of Unicode code points.  Time is gettime() in milliseconds.  *)
(***************************************************************************)
EXTENDS Integers, Sequences, FiniteSets, TLC

\* ------------------------------------------------------------ constants
MSG_RSP == 0
MSG_PING == 6
MSG_INTERNAL == 17
MSG_HW == 20
MSG_HW_LOGIN == 29
MSG_REDIRECT == 41
MSG_EVENT_LOG == 64

STA_SUCCESS == 200
STA_INVALID_TOKEN == 9

DISCONNECTED == 0
CONNECTING == 1
CONNECTED == 2

\* heartbeat=7 seconds, as the gate controller constructs the engine
HeartbeatSec == 7
\* self.heartbeat = heartbeat*1000
heartbeat == HeartbeatSec * 1000

\* largest message id, 0xFFFF
MaxMsgId == 65535
\* ceiling of the reconnect backoff, seconds
BackoffCap == 30

\* BLYNK_AUTH_TOKEN = 'qxxxxxxx1', as text (code points)
Auth == <<113, 120, 120, 120, 120, 120, 120, 120, 49>>

\* ------------------------------------------------------------ bounds
\* failed connection attempts explored in one Blynk.connect() call
MaxFails == 7
\* writes that succeed in one call before the transport starts failing
MaxWok == 1
\* clock steps explored, and the length of one step in milliseconds
MaxTicks == 4
TickMs == 3500
\* reads that return data, explored per run of the model
MaxRx == 1
\* outbound application frames explored in the engine specification
MaxAppSends == 1

\* ------------------------------------------------------------ helpers
Min(a, b) == IF a < b THEN a ELSE b

RECURSIVE Utf8Encode(_)
\* str.encode('utf8') on a sequence of code points (up to U+FFFF)
Utf8Encode(s) ==
  IF s = <<>> THEN <<>>
  ELSE LET c == Head(s) IN
       (IF c < 128 THEN <<c>>
        ELSE IF c < 2048 THEN <<192 + (c \div 64), 128 + (c % 64)>>
        ELSE <<224 + (c \div 4096), 128 + ((c \div 64) % 64), 128 + (c % 64)>>)
       \o Utf8Encode(Tail(s))

IsCont(b) == b >= 128 /\ b < 192

RECURSIVE Utf8Decode(_)
\* bytes.decode('utf8'): [ok, s]; ok = FALSE stands for UnicodeDecodeError
Utf8Decode(b) ==
  IF \A i \in 1..Len(b) : b[i] < 128 THEN [ok |-> TRUE, s |-> b]
  ELSE LET h == Head(b)
           n == IF h < 128 THEN 1
                ELSE IF h >= 194 /\ h < 224 THEN 2
                ELSE IF h >= 224 /\ h < 240 THEN 3
                ELSE 0
       IN IF n = 0 \/ Len(b) < n THEN [ok |-> FALSE, s |-> <<>>]
          ELSE LET c == IF n = 1 THEN h
                        ELSE IF n = 2 THEN (h - 192) * 64 + (b[2] - 128)
                        ELSE (h - 224) * 4096 + (b[2] - 128) * 64 + (b[3] - 128)
                   good == /\ \A i \in 2..n : IsCont(b[i])
                           /\ (n = 3 => (c >= 2048 /\ ~(c >= 55296 /\ c < 57344)))
                   rest == Utf8Decode(SubSeq(b, n + 1, Len(b)))
               IN IF good /\ rest.ok
                  THEN [ok |-> TRUE, s |-> <<c>> \o rest.s]
                  ELSE [ok |-> FALSE, s |-> <<>>]

RECURSIVE Digits(_)
\* decimal digits of a natural number, as code points
Digits(n) == IF n < 10 THEN <<48 + n>> ELSE Digits(n \div 10) \o <<48 + (n % 10)>>

\* str(x) for a non-negative int
StrInt(n) == Digits(n)

RECURSIVE ParseDigits(_, _)
ParseDigits(s, acc) ==
  IF s = <<>> THEN acc ELSE ParseDigits(Tail(s), acc * 10 + (Head(s) - 48))

\* int(text) on decimal digits: [ok, v]; ok = FALSE stands for ValueError
ParseInt(s) ==
  IF s # <<>> /\ \A i \in 1..Len(s) : s[i] >= 48 /\ s[i] <= 57
  THEN [ok |-> TRUE, v |-> ParseDigits(s, 0)]
  ELSE [ok |-> FALSE, v |-> 0]

RECURSIVE JoinNul(_)
\* '\0'.join(fields) on text fields
JoinNul(fields) ==
  IF fields = <<>> THEN <<>>
  ELSE IF Len(fields) = 1 THEN fields[1]
  ELSE fields[1] \o <<0>> \o JoinNul(Tail(fields))

RECURSIVE SplitNul(_)
\* payload.split(b'\0'): the pieces between the NUL bytes, always at least one
SplitNul(b) ==
  LET z == {i \in 1..Len(b) : b[i] = 0}
  IN IF z = {} THEN <<b>>
     ELSE LET p == CHOOSE i \in z : \A j \in z : i <= j
          IN <<SubSeq(b, 1, p - 1)>> \o SplitNul(SubSeq(b, p + 1, Len(b)))

\* struct.pack("!BHH", cmd, mid, dlen)
PackHeader(cmd, mid, dlen) ==
  <<cmd, mid \div 256, mid % 256, dlen \div 256, dlen % 256>>

\* struct.unpack("!BHH", bin[:5])
UnpackHeader(b) ==
  [cmd |-> b[1], mid |-> b[2] * 256 + b[3], dlen |-> b[4] * 256 + b[5]]

\* the frame bytes _send() builds: args is <<status>> for MSG_RSP, else text fields
EncodeFrame(cmd, mid, args) ==
  IF cmd = MSG_RSP
  THEN PackHeader(cmd, mid, args[1])
  ELSE LET data == Utf8Encode(JoinNul(args))
       IN PackHeader(cmd, mid, Len(data)) \o data

\* ------------------------------------------------------------ event names
\* event names are text, so that "V"+pin and "internal:"+name are concatenations
EvConnected == <<99, 111, 110, 110, 101, 99, 116, 101, 100>>
EvDisconnected == <<100, 105, 115, 99, 111, 110, 110, 101, 99, 116, 101, 100>>
EvInvalidAuth == <<105, 110, 118, 97, 108, 105, 100, 95, 97, 117, 116, 104>>
EvRedirect == <<114, 101, 100, 105, 114, 101, 99, 116>>
EvVStar == <<86, 42>>
PrefixV == <<86>>
PrefixInternal == <<105, 110, 116, 101, 114, 110, 97, 108, 58>>
TextVw == <<118, 119>>

\* ------------------------------------------------------------ the engine
(***************************************************************************)
(* The operators below work on a record e holding the engine's fields      *)
(* (state, msg_id, lastRecv, lastSend, lastPing, bin, conn, backoff,       *)
(* server, cbks), plus what one call sees of its environment:              *)
(*   clock  the value gettime() returns during the call,                   *)
(*   wok    how many conn.write() calls succeed before the transport fails *)
(*          (more than MaxWok: it does not fail),                          *)
(*   kfail  how many connection attempts fail in the next Blynk.connect(), *)
(*   exc    an exception is propagating,                                   *)
(*   trace  what the call did, in order: state assignments, frames handed  *)
(*          to conn.write(), events emitted, callbacks run, sleeps,        *)
(*          sockets opened and closed.                                     *)
(***************************************************************************)
Log(e, x) == [e EXCEPT !.trace = Append(@, x)]

Raise(e, what) == [Log(e, [k |-> "raise", what |-> what]) EXCEPT !.exc = TRUE]

\* a 16-bit increment that forgets that 0 is reserved
NextMsgId_Wrap0(mid) == (mid + 1) % (MaxMsgId + 1)

\* self.msg_id = mid + 1 if mid < 0xFFFF else 1
NextMsgId(mid) == IF mid < MaxMsgId THEN mid + 1 ELSE 1

\* self.backoff = min(self.backoff*2, 30)
NextBackoff(b) == Min(b * 2, BackoffCap)

\* EventEmitter.on(evt, f)
on(e, evt, f) ==
  [e EXCEPT !.cbks = [x \in (DOMAIN @) \cup {evt} |-> IF x = evt THEN f ELSE @[x]]]

RECURSIVE emit(_, _, _)
RECURSIVE disconnect(_)
RECURSIVE write(_, _)
RECURSIVE send(_, _, _, _)
RECURSIVE super_connect(_)
RECURSIVE connect(_)
RECURSIVE redirect(_, _, _)

\* self._cbks[evt](*a): the library's redirect handler, or an application
\* callback that returns ("ok") or raises ("raise")
Invoke(e, evt, args) ==
  LET f == e.cbks[evt]
      e1 == Log(e, [k |-> "cb", evt |-> evt, raised |-> (f = "raise")])
  IN IF f = "redirect" THEN redirect(e1, args[1], args[2])
     ELSE IF f = "raise" THEN [e1 EXCEPT !.exc = TRUE]
     ELSE e1

\* an emit without the try/except: the exception goes on propagating
Swallow_Propagate(e) == e

\* the except clause of emit: the exception is printed and dropped
Swallow(e) == [e EXCEPT !.exc = FALSE]

\* EventEmitter.emit(evt, *a)
emit(e, evt, args) ==
  LET e1 == Log(e, [k |-> "emit", evt |-> evt, args |-> args])
  IN IF evt \in DOMAIN e1.cbks THEN Swallow(Invoke(e1, evt, args)) ELSE e1

\* BlynkProtocol.disconnect()
disconnect(e) ==
  LET e1 == Log([e EXCEPT !.state = DISCONNECTED], [k |-> "state", v |-> DISCONNECTED])
      e2 == Log([e1 EXCEPT !.conn.open = FALSE], [k |-> "close", id |-> e1.conn.id])
  IN emit(e2, EvDisconnected, <<>>)

\* Blynk._write(data): conn.write() raises on a closed socket or a failed transport
write(e, data) ==
  IF e.conn.open /\ e.wok > 0
  THEN Log([e EXCEPT !.wok = IF @ > MaxWok THEN @ ELSE @ - 1],
           [k |-> "write", data |-> data, ok |-> TRUE])
  ELSE disconnect(Log(e, [k |-> "write", data |-> data, ok |-> FALSE]))

\* BlynkProtocol._send(cmd, *args, **kwargs); kw is <<id>> when id= is given, else <<>>.
\* msg_id is always set by connect() before the first _send(), so the getattr
\* default is never taken.
send(e, cmd, args, kw) ==
  LET mid == IF kw # <<>> THEN kw[1] ELSE e.msg_id
      e1 == IF kw # <<>> THEN e ELSE [e EXCEPT !.msg_id = NextMsgId(mid)]
      msg == EncodeFrame(cmd, mid, args)
  IN write([e1 EXCEPT !.lastSend = e1.clock], msg)

\* a connect() that keeps the counter of the previous connection
ResetMsgId_Keep(e) == e

\* self.msg_id = 1
ResetMsgId(e) == [e EXCEPT !.msg_id = 1]

\* self.lastRecv = self.lastSend = self.lastPing = gettime()
Stamp(e) == [e EXCEPT !.lastRecv = e.clock, !.lastSend = e.clock, !.lastPing = e.clock]

\* BlynkProtocol.connect()
super_connect(e) ==
  IF e.state # DISCONNECTED THEN e
  ELSE LET e1 == Log([e EXCEPT !.state = CONNECTING], [k |-> "state", v |-> CONNECTING])
       IN send(Stamp(ResetMsgId(e1)), MSG_HW_LOGIN, <<Auth>>, <<>>)

RECURSIVE Retry(_, _)
\* k failed attempts of the loop in Blynk.connect(): sleep(backoff), then double it
Retry(e, k) ==
  IF k = 0 THEN e
  ELSE Retry([Log(e, [k |-> "sleep", secs |-> e.backoff])
                EXCEPT !.backoff = NextBackoff(e.backoff)], k - 1)

\* a connect() that leaves the backoff where the failures put it
ResetBackoff_Keep(e) == e

\* self.backoff = 1 after super().connect()
ResetBackoff(e) == [e EXCEPT !.backoff = 1]

\* Blynk.connect(): retry until a socket connects, log in, reset the backoff
connect(e) ==
  LET e0 == Log(e, [k |-> "connect", st |-> e.state, bin |-> e.bin])
      e1 == Retry(e0, e0.kfail)
      e2 == Log([e1 EXCEPT !.conn = [id |-> e1.conns + 1, open |-> TRUE],
                           !.conns = @ + 1, !.kfail = 0],
                [k |-> "open", id |-> e1.conns + 1])
      e3 == ResetBackoff(super_connect(e2))
  IN Log(e3, [k |-> "ret", st |-> e3.state, recv |-> e3.lastRecv,
              snd |-> e3.lastSend, ping |-> e3.lastPing, at |-> e3.clock,
              backoff |-> e3.backoff])

\* Blynk.redirect(server, port)
redirect(e, server, port) ==
  connect(disconnect([e EXCEPT !.server = <<server, port>>]))

\* a timeout of two heartbeats instead of one and a half
TimedOut_Late(e, tnow) == tnow - e.lastRecv > 2 * heartbeat

\* the hard timeout test of process()
TimedOut(e, tnow) == tnow - e.lastRecv > heartbeat + (heartbeat \div 2)

\* a ping test that wants both directions idle
PingDue_Both(e, tnow) ==
  /\ tnow - e.lastPing > heartbeat \div 10
  /\ (tnow - e.lastSend > heartbeat /\ tnow - e.lastRecv > heartbeat)

\* the ping test of process()
PingDue(e, tnow) ==
  /\ tnow - e.lastPing > heartbeat \div 10
  /\ (tnow - e.lastSend > heartbeat \/ tnow - e.lastRecv > heartbeat)

\* a ping reply that takes its id from the counter
PingReply_FreshId(e, mid) == send(e, MSG_RSP, <<STA_SUCCESS>>, <<>>)

\* self._send(MSG_RSP, STA_SUCCESS, id=mid)
PingReply(e, mid) == send(e, MSG_RSP, <<STA_SUCCESS>>, <<mid>>)

\* the values of a virtual write, with the pin left in front
VwValues_WithPin(args) == SubSeq(args, 2, Len(args))

\* args[2:], the values that follow "vw" and the pin
VwValues(args) == SubSeq(args, 3, Len(args))

\* the routing of one decoded frame in process()
Dispatch(e, cmd, mid, dlen, args) ==
  IF cmd = MSG_PING THEN PingReply(e, mid)
  ELSE IF cmd = MSG_HW THEN
    IF args[1] # TextVw THEN e
    ELSE IF Len(args) < 2 THEN Raise(e, "IndexError")
    ELSE LET rest == VwValues(args)
         IN emit(emit(e, PrefixV \o args[2], <<rest>>), EvVStar, <<args[2], rest>>)
  ELSE IF cmd = MSG_INTERNAL THEN
    emit(e, PrefixInternal \o args[1], <<SubSeq(args, 2, Len(args))>>)
  ELSE IF cmd = MSG_REDIRECT THEN
    IF Len(args) < 2 THEN Raise(e, "IndexError")
    ELSE IF ~ParseInt(args[2]).ok THEN Raise(e, "ValueError")
    ELSE emit(e, EvRedirect, <<args[1], ParseInt(args[2]).v>>)
  ELSE IF cmd = MSG_RSP /\ e.state = CONNECTING THEN
    IF dlen = STA_SUCCESS
    THEN emit(Log([e EXCEPT !.state = CONNECTED], [k |-> "state", v |-> CONNECTED]),
              EvConnected, <<>>)
    ELSE IF dlen = STA_INVALID_TOKEN
    THEN disconnect(emit(e, EvInvalidAuth, <<>>))
    ELSE e
  ELSE e

\* a decoder that takes messageId 0 like any other id
ProtocolViolation_Never(h) == FALSE

\* if mid == 0: the header is a protocol violation
ProtocolViolation(h) == h.mid = 0

RECURSIVE ProcessLoop(_)
\* the while loop of process()
ProcessLoop(e) ==
  IF Len(e.bin) < 5 THEN e
  ELSE LET h == UnpackHeader(e.bin) IN
    IF ProtocolViolation(h) THEN disconnect(e)
    ELSE IF Len(e.bin) < 5 + h.dlen THEN e
    ELSE LET payload == SubSeq(e.bin, 6, 5 + h.dlen)
             e1 == [e EXCEPT !.bin = SubSeq(@, 6 + h.dlen, Len(@))]
             parts == SplitNul(payload)
             okText == \A i \in 1..Len(parts) : Utf8Decode(parts[i]).ok
             args == [i \in 1..Len(parts) |-> Utf8Decode(parts[i]).s]
             e2 == Log(e1, [k |-> "frame", cmd |-> h.cmd, mid |-> h.mid,
                            dlen |-> h.dlen, args |-> args, ok |-> okText,
                            st |-> e1.state])
             e3 == IF okText THEN Dispatch(e2, h.cmd, h.mid, h.dlen, args)
                   ELSE Raise(e2, "UnicodeDecodeError")
         IN IF e3.exc THEN e3 ELSE ProcessLoop(e3)

\* BlynkProtocol.process(data)
process(e, data) ==
  IF e.state \notin {CONNECTING, CONNECTED} THEN e
  ELSE IF TimedOut(e, e.clock) THEN disconnect(e)
  ELSE LET e1 == IF PingDue(e, e.clock)
                 THEN [send(e, MSG_PING, <<>>, <<>>) EXCEPT !.lastPing = e.clock]
                 ELSE e
       IN ProcessLoop([e1 EXCEPT !.bin = @ \o data])

\* Blynk.run(); rd is what conn.read() does: data, a timeout, or another error
run(e, rd) ==
  IF ~e.conn.open \/ rd.kind = "error"
  THEN Log(disconnect(e), [k |-> "pause", ms |-> 500])
  ELSE LET e1 == IF rd.kind = "timeout" THEN Log(e, [k |-> "pause", ms |-> 50]) ELSE e
           r == process(e1, rd.data)
       IN IF r.exc THEN Log(disconnect(Swallow(r)), [k |-> "pause", ms |-> 500]) ELSE r

\* BlynkProtocol.virtual_write(pin, *val): pin and values go through str()
virtual_write(e, pin, val) == send(e, MSG_HW, <<TextVw, StrInt(pin), StrInt(val)>>, <<>>)

\* BlynkProtocol.log_event(*val)
log_event(e, val) == send(e, MSG_EVENT_LOG, val, <<>>)

\* ------------------------------------------------------------ state
VARIABLES
  state,      \* self.state
  msg_id,     \* self.msg_id, the next message id to allocate
  lastRecv,   \* self.lastRecv
  lastSend,   \* self.lastSend
  lastPing,   \* self.lastPing
  bin,        \* self.bin, the receive buffer
  conn,       \* self.conn: [id, open], the socket of the last successful attempt
  conns,      \* sockets connected so far
  backoff,    \* self.backoff
  server,     \* <<self.server, self.port>>
  cbks,       \* self._cbks: event name -> handler
  now,        \* the clock, gettime()
  ticks,      \* clock steps taken
  rx,         \* reads that returned data
  appSends,   \* application frames sent
  call,       \* the last call made on the engine: [op, arg, at]
  pre,        \* the engine's fields when that call began
  trace,      \* what that call did, in order
  heard,      \* history: when the connection began or last had a frame decoded
  faulted,    \* history: some callback has raised
  drops,      \* history: "disconnected" events since the state last became
              \* Connecting (2 stands for two or more)
  threads     \* the application's threads inside _send(): thread -> [pc, cmd, mid]

vars == <<state, msg_id, lastRecv, lastSend, lastPing, bin, conn, conns, backoff,
          server, cbks, now, ticks, rx, appSends, call, pre, trace, heard, faulted,
          drops, threads>>

\* the engine's fields, as the record the operators work on
Fields ==
  [state |-> state, msg_id |-> msg_id, lastRecv |-> lastRecv, lastSend |-> lastSend,
   lastPing |-> lastPing, bin |-> bin, conn |-> conn, conns |-> conns,
   backoff |-> backoff, server |-> server, cbks |-> cbks, heard |-> heard]

\* the record a call starts from: w writes succeed, k connection attempts fail
Enter(f, w, k) ==
  [state |-> f.state, msg_id |-> f.msg_id, lastRecv |-> f.lastRecv,
   lastSend |-> f.lastSend, lastPing |-> f.lastPing, bin |-> f.bin, conn |-> f.conn,
   conns |-> f.conns, backoff |-> f.backoff, server |-> f.server, cbks |-> f.cbks,
   clock |-> now, wok |-> w, kfail |-> k, exc |-> FALSE, trace |-> <<>>]

RECURSIVE CountDrops(_, _, _)
\* "disconnected" events since the state last became Connecting, after the
\* entries i.. of a call's trace, when there were d before them
CountDrops(tr, i, d) ==
  IF i > Len(tr) THEN d
  ELSE CountDrops(tr, i + 1,
         IF tr[i].k = "state" /\ tr[i].v = CONNECTING THEN 0
         ELSE IF tr[i].k = "emit" /\ tr[i].evt = EvDisconnected THEN Min(d + 1, 2)
         ELSE d)

\* the state a call leaves
Leave(r, op, arg, before) ==
  /\ state' = r.state
  /\ msg_id' = r.msg_id
  /\ lastRecv' = r.lastRecv
  /\ lastSend' = r.lastSend
  /\ lastPing' = r.lastPing
  /\ bin' = r.bin
  /\ conn' = r.conn
  /\ conns' = r.conns
  /\ backoff' = r.backoff
  /\ server' = r.server
  /\ cbks' = r.cbks
  /\ trace' = r.trace
  /\ call' = [op |-> op, arg |-> arg, at |-> r.clock]
  /\ pre' = before
  /\ heard' = IF \E i \in 1..Len(r.trace) :
                    \/ r.trace[i].k = "frame"
                    \/ (r.trace[i].k = "state" /\ r.trace[i].v = CONNECTING)
               THEN r.clock ELSE heard
  /\ faulted' = (faulted \/ \E i \in 1..Len(r.trace) :
                               r.trace[i].k = "cb" /\ r.trace[i].raised)
  /\ drops' = CountDrops(r.trace, 1, drops)
  /\ threads' = threads

\* ------------------------------------------------------------ inputs
Unlimited == MaxWok + 1
\* the first write fails, MaxWok writes succeed, or none fails
WriteBudgets == {0, MaxWok, Unlimited}
FailCounts == {0, 1, MaxFails}

\* frames the server sends; a response frame is its 5 header bytes
RspOk == PackHeader(MSG_RSP, 1, STA_SUCCESS)
RspInvalid == PackHeader(MSG_RSP, 1, STA_INVALID_TOKEN)
PingFrame == EncodeFrame(MSG_PING, 7, <<>>)
VwFrame == EncodeFrame(MSG_HW, 2, <<TextVw, <<49>>, <<49>>>>)
RedirectFrame == EncodeFrame(MSG_REDIRECT, 3, <<<<104>>, <<56, 48>>>>)
ZeroIdFrame == PackHeader(MSG_HW, 0, 0)
\* STA_SUCCESS further bytes of the stream (text, no NUL)
Filler == [i \in 1..STA_SUCCESS |-> 97]

\* what one read returns: a frame, a response with the bytes that follow it,
\* or a redirect with the bytes the old server sent after it
Chunks ==
  {RspOk, RspInvalid, PingFrame, VwFrame, RedirectFrame, ZeroIdFrame,
   RspOk \o Filler, RspInvalid \o RedirectFrame, RedirectFrame \o ZeroIdFrame}

\* what conn.read() does on an open socket; on a closed one it raises
Reads ==
  {[kind |-> "timeout", data |-> <<>>], [kind |-> "error", data |-> <<>>]}
  \cup {[kind |-> "data", data |-> c] : c \in Chunks}

\* events the application registers callbacks for, and what a callback does
Registrations == {<<EvConnected, "raise">>, <<EvDisconnected, "ok">>}
Pins == {2, 22}
Values == {1}
EventTexts == {<<<<103>>, <<71, 233>>>>}

\* ------------------------------------------------------------ Init
\* the fields Blynk.__init__ and BlynkProtocol.__init__ set before connect()
Blank ==
  [state |-> DISCONNECTED, msg_id |-> 1, lastRecv |-> 0, lastSend |-> 0,
   lastPing |-> 0, bin |-> <<>>, conn |-> [id |-> 0, open |-> FALSE], conns |-> 0,
   backoff |-> 1, server |-> <<<<98>>, 443>>, cbks |-> <<>>, heard |-> 0]

\* Blynk(auth, heartbeat=7): the constructor connects, then registers redirect
Constructed(w, k) ==
  LET e0 == [state |-> Blank.state, msg_id |-> Blank.msg_id, lastRecv |-> Blank.lastRecv,
             lastSend |-> Blank.lastSend, lastPing |-> Blank.lastPing, bin |-> Blank.bin,
             conn |-> Blank.conn, conns |-> Blank.conns, backoff |-> Blank.backoff,
             server |-> Blank.server, cbks |-> Blank.cbks,
             clock |-> 0, wok |-> w, kfail |-> k, exc |-> FALSE, trace |-> <<>>]
  IN on(connect(e0), EvRedirect, "redirect")

Init ==
  \E w \in WriteBudgets, k \in FailCounts :
    LET r == Constructed(w, k) IN
    /\ state = r.state
    /\ msg_id = r.msg_id
    /\ lastRecv = r.lastRecv
    /\ lastSend = r.lastSend
    /\ lastPing = r.lastPing
    /\ bin = r.bin
    /\ conn = r.conn
    /\ conns = r.conns
    /\ backoff = r.backoff
    /\ server = r.server
    /\ cbks = r.cbks
    /\ trace = r.trace
    /\ call = [op |-> "init", arg |-> <<>>, at |-> 0]
    /\ pre = Blank
    /\ now = 0
    /\ ticks = 0
    /\ rx = 0
    /\ appSends = 0
    /\ heard = 0
    /\ faulted = FALSE
    /\ drops = CountDrops(r.trace, 1, 0)
    /\ threads = <<>>

\* ------------------------------------------------------------ actions
\* time passes
Tick ==
  /\ ticks < MaxTicks
  /\ ticks' = ticks + 1
  /\ now' = now + TickMs
  /\ call' = [op |-> "tick", arg |-> <<>>, at |-> now']
  /\ pre' = Fields
  /\ trace' = <<>>
  /\ UNCHANGED <<state, msg_id, lastRecv, lastSend, lastPing, bin, conn, conns,
                 backoff, server, cbks, rx, appSends, heard, faulted, drops, threads>>

\* one tick of the service loop: blynk_loop calls Blynk.run()
Run ==
  \E rd \in Reads, w \in WriteBudgets, k \in FailCounts :
    /\ ~conn.open => rd.kind = "error"
    /\ rd.kind = "data" => rx < MaxRx
    /\ rx' = IF rd.kind = "data" THEN rx + 1 ELSE rx
    /\ Leave(run(Enter(Fields, w, k), rd), "run", rd, Fields)
    /\ UNCHANGED <<now, ticks, appSends>>

\* the application thread calls virtual_write (through safe_blynk_write)
VirtualWrite ==
  \E pin \in Pins, val \in Values, w \in WriteBudgets :
    /\ appSends < MaxAppSends
    /\ appSends' = appSends + 1
    /\ Leave(virtual_write(Enter(Fields, w, 0), pin, val), "virtual_write",
             <<pin, val>>, Fields)
    /\ UNCHANGED <<now, ticks, rx>>

\* the application thread calls log_event
LogEvent ==
  \E val \in EventTexts, w \in WriteBudgets :
    /\ appSends < MaxAppSends
    /\ appSends' = appSends + 1
    /\ Leave(log_event(Enter(Fields, w, 0), val), "log_event", val, Fields)
    /\ UNCHANGED <<now, ticks, rx>>

\* the application registers or replaces a callback
On ==
  \E g \in Registrations :
    /\ Leave(on(Enter(Fields, Unlimited, 0), g[1], g[2]), "on", g, Fields)
    /\ UNCHANGED <<now, ticks, rx, appSends>>

Next == Tick \/ Run \/ VirtualWrite \/ LogEvent \/ On

Spec == Init /\ [][Next]_vars

\* blynk_loop is "while True: blynk.run()": the service loop keeps being ticked
LiveSpec == Spec /\ WF_vars(Run)

\* ------------------------------------------------------------ reading a trace
\* process() was entered by the last call
ProcessCalled == call.op = "run" /\ pre.conn.open /\ call.arg.kind # "error"

\* the last call was a send by the application
AppSendCalled == call.op \in {"virtual_write", "log_event"}

Idx(tr, kind) == {i \in 1..Len(tr) : tr[i].k = kind}

\* how often evt was emitted
Emitted(tr, evt) == Cardinality({i \in Idx(tr, "emit") : tr[i].evt = evt})

\* the frames handed to conn.write() whose command byte is cmd
Written(tr, cmd) == {i \in Idx(tr, "write") : tr[i].data[1] = cmd}

WriteFailed(tr) == \E i \in Idx(tr, "write") : ~tr[i].ok

\* the time since the last frame exceeds 1.5 heartbeat intervals
Over15(elapsed) == 2 * elapsed > 3 * heartbeat

\* the connection was up and not timed out when the call began
Fresh == pre.state = CONNECTING /\ pre.bin = <<>> /\ ~Over15(call.at - pre.heard)

\* the return of the Blynk.connect() call that begins at trace[i]
RetOf(tr, i) == CHOOSE j \in Idx(tr, "ret") : j > i /\ \A m \in Idx(tr, "ret") : m > i => j <= m

\* the indices of kind inside that connect() call
Within(tr, i, kind) == {m \in Idx(tr, kind) : i < m /\ m < RetOf(tr, i)}

\* the n-th element of a set of indices, in order
Nth(S, n) == CHOOSE x \in S : Cardinality({y \in S : y < x}) = n - 1

\* ------------------------------------------------------------ claims
\* C1: in Connecting, a RESPONSE frame with length field 200 and no payload
\* bytes delivered to process() leaves the state Connected with "connected"
\* emitted exactly once.
C1_LoginHandshake ==
  (ProcessCalled /\ Fresh /\ call.arg.data = RspOk /\ ~WriteFailed(trace))
    => (state = CONNECTED /\ Emitted(trace, EvConnected) = 1)

\* a fatal read error, a write error or the hard timeout disconnected the engine
LostByFault ==
  /\ state = DISCONNECTED
  /\ pre.state # DISCONNECTED
  /\ \/ call.op = "run" /\ call.arg.kind = "error"
     \/ (call.op = "run" \/ AppSendCalled) /\ WriteFailed(trace)
     \/ ProcessCalled /\ TimedOut(pre, call.at)

\* C2: whenever a fatal read error, a write error or the hard timeout has
\* disconnected the engine and the service loop keeps being ticked, the state
\* eventually becomes Connecting again.
C2_Recovery == LostByFault ~> (state = CONNECTING)

\* C3: in Connecting or Connected, when more than 1.5 heartbeat intervals have
\* passed since the last received frame, the next process() call ends
\* Disconnected, emits "disconnected" exactly once, writes no frame (no ping),
\* decodes no frame and leaves the receive buffer as it was.
C3_HardTimeout ==
  (ProcessCalled /\ pre.state \in {CONNECTING, CONNECTED}
     /\ Over15(call.at - pre.heard))
    => /\ state = DISCONNECTED
       /\ Emitted(trace, EvDisconnected) = 1
       /\ Idx(trace, "write") = {}
       /\ Idx(trace, "frame") = {}
       /\ bin = pre.bin

\* C3 witness: bytes were delivered after the timeout ran out, and dropped
C3_Witness ==
  /\ ProcessCalled /\ call.arg.kind = "data"
  /\ pre.state = CONNECTING /\ Over15(call.at - pre.heard)
  /\ state = DISCONNECTED /\ Emitted(trace, EvDisconnected) = 1

\* the login frame: HARDWARE_LOGIN (29), messageId 1, the auth token as payload
LoginFrame == <<29, 0, 1, 0, Len(Auth)>> \o Auth

\* C5: connect() in state Disconnected sets the state to Connecting, sets
\* lastRecv, lastSend and lastPing to the current time and hands exactly one
\* frame to the transport: HARDWARE_LOGIN, messageId 1, payload the auth token;
\* on every connect, reconnects after earlier traffic included.  (When the
\* transport accepts the frame the call also returns in Connecting.)
C5_LoginOnConnect ==
  \A i \in Idx(trace, "connect") :
    trace[i].st = DISCONNECTED =>
      LET ret == trace[RetOf(trace, i)]
          ws == Within(trace, i, "write")
          st == Within(trace, i, "state")
      IN /\ Cardinality(ws) = 1
         /\ \A w \in ws :
              /\ trace[w].data = LoginFrame
              /\ \E m \in st : m < w /\ trace[m].v = CONNECTING
                                /\ \A n \in st : m <= n
              /\ trace[w].ok => ret.st = CONNECTING
         /\ ret.recv = ret.at /\ ret.snd = ret.at /\ ret.ping = ret.at

\* C5 witness: a reconnect after traffic had advanced the counter past 2
C5_Witness ==
  /\ call.op = "run" /\ pre.msg_id > 2
  /\ \E i \in Idx(trace, "connect") : trace[i].st = DISCONNECTED
  /\ \E w \in Idx(trace, "write") : trace[w].data = LoginFrame /\ trace[w].ok
  /\ state = CONNECTING /\ msg_id = 2 /\ conn.id > 1

\* the n-th delay of the sequence 1, 2, 4, 8, 16, 30, 30, 30, ...
Delay(n) == IF n >= 6 THEN 30 ELSE 2 ^ (n - 1)

\* C6: the delays slept after consecutive failed attempts of one connect() are
\* 1, 2, 4, 8, 16, 30, 30, ...; the backoff stays in [1, 30]; it is 1 after
\* every successful connect, so the next connect() starts again at 1.
C6_Backoff ==
  /\ backoff \in 1..30
  /\ \A i \in Idx(trace, "connect") :
       LET sl == Within(trace, i, "sleep")
       IN /\ \A n \in 1..Cardinality(sl) : trace[Nth(sl, n)].secs = Delay(n)
          /\ trace[RetOf(trace, i)].backoff = 1

\* C6 witness: a reconnect (not the first connect) whose attempts failed often
\* enough to reach the ceiling twice
C6_Witness ==
  /\ call.op = "run" /\ conn.id > 1 /\ backoff = 1
  /\ \E i \in Idx(trace, "connect") : Cardinality(Within(trace, i, "sleep")) >= 7

\* the premise of the ping claim, in the claim's own arithmetic
PingPremise ==
  /\ ProcessCalled /\ pre.state \in {CONNECTING, CONNECTED}
  /\ 10 * (call.at - pre.lastPing) > heartbeat
  /\ (call.at - pre.lastSend > heartbeat \/ call.at - pre.lastRecv > heartbeat)

\* exactly one PING frame (command 6, no payload, the id allocated next) was
\* handed to the transport and lastPing is the time of the call
OnePing ==
  /\ Cardinality(Written(trace, MSG_PING)) = 1
  /\ \A w \in Written(trace, MSG_PING) :
       trace[w].data = <<6, pre.msg_id \div 256, pre.msg_id % 256, 0, 0>>
  /\ lastPing = call.at

C8_InvalidToken ==
  (ProcessCalled /\ Fresh /\ call.arg.data = RspInvalid /\ ~WriteFailed(trace))
    => /\ \E i, j, m \in 1..Len(trace) :
            /\ i < j /\ j < m
            /\ trace[i].k = "emit" /\ trace[i].evt = EvInvalidAuth
            /\ trace[j].k = "state" /\ trace[j].v = DISCONNECTED
            /\ trace[m].k = "emit" /\ trace[m].evt = EvDisconnected
       /\ state = DISCONNECTED
       /\ \A i \in Idx(trace, "state") : trace[i].v # CONNECTED

\* a header with messageId 0 is at the front of the receive buffer
ZeroIdAhead == Len(bin) >= 5 /\ bin[2] = 0 /\ bin[3] = 0

\* C9: a callback that raises inside emit() stops nothing: every emit of an
\* event with a registered callback runs that callback, also after an earlier
\* callback has raised; and when the frame that made the state Connected is
\* the last one the call decodes, the call ends in Connected whether or not the
\* "connected" callback raised (the exception does not reach run()).
C9_SubscriberIsolation ==
  /\ \A i \in Idx(trace, "emit") :
       trace[i].evt \in DOMAIN pre.cbks =>
         /\ i < Len(trace)
         /\ trace[i + 1].k = "cb" /\ trace[i + 1].evt = trace[i].evt
  /\ \A i \in Idx(trace, "state") :
       (/\ trace[i].v = CONNECTED
        /\ \A j \in Idx(trace, "frame") : j < i
        /\ ~ZeroIdAhead)
         => state = CONNECTED

\* C9 witness: the "connected" callback raised earlier, the engine went on in
\* Connected, and now a disconnect runs the "disconnected" callback
C9_Witness ==
  /\ faulted /\ pre.state = CONNECTED /\ state = DISCONNECTED
  /\ \E i \in Idx(trace, "cb") : trace[i].evt = EvDisconnected /\ ~trace[i].raised

\* ------------------------------------------------------------ message ids
\* how far from both ends of [1, 0xFFFF] the counter starts
IdSpan == 20

IdStarts == (1..IdSpan) \cup ((MaxMsgId - IdSpan)..MaxMsgId)

\* a connected engine whose counter earlier sends have advanced to any id
InitIds ==
  /\ state = CONNECTED
  /\ msg_id \in IdStarts
  /\ lastRecv = 0 /\ lastSend = 0 /\ lastPing = 0
  /\ bin = <<>>
  /\ conn = [id |-> 1, open |-> TRUE]
  /\ conns = 1
  /\ backoff = 1
  /\ server = Blank.server
  /\ cbks = on(Blank, EvRedirect, "redirect").cbks
  /\ now = 0 /\ ticks = 0 /\ rx = 0 /\ appSends = 0
  /\ heard = 0 /\ faulted = FALSE /\ drops = 0 /\ threads = <<>>
  /\ call = [op |-> "ids", arg |-> <<>>, at |-> 0]
  /\ pre = Blank
  /\ trace = <<>>

NextIds == VirtualWrite \/ LogEvent

\* _send() without an explicit id, from every value of the counter
SpecIds == InitIds /\ [][NextIds]_vars

\* the message id in the header of a frame
IdOf(data) == data[2] * 256 + data[3]

\* C4: every _send() without an explicit id issues the counter's value, which
\* lies in [1, 0xFFFF] and is never 0; the id issued next is one more, except
\* after 0xFFFF, where it is 1.
C4_IdSequence ==
  AppSendCalled =>
    /\ Cardinality(Idx(trace, "write")) = 1
    /\ \A w \in Idx(trace, "write") :
         LET m == IdOf(trace[w].data)
         IN /\ m = pre.msg_id
            /\ m >= 1 /\ m <= 65535
            /\ msg_id >= 1 /\ msg_id <= 65535
            /\ (m < 65535 => msg_id = m + 1)
            /\ (m = 65535 => msg_id = 1)

\* C4 witness: the id 0xFFFF was issued and the counter wrapped to 1
C4_Witness ==
  /\ AppSendCalled /\ pre.msg_id = 65535 /\ msg_id = 1
  /\ \E w \in Idx(trace, "write") : IdOf(trace[w].data) = 65535

\* ------------------------------------------------------------ codec round trip
Commands ==
  {MSG_RSP, 2, MSG_PING, 15, 16, MSG_INTERNAL, 19, MSG_HW, MSG_HW_LOGIN,
   MSG_REDIRECT, MSG_EVENT_LOG}
Statuses == {0, STA_INVALID_TOKEN, STA_SUCCESS}
MessageIds == {1, 255, 256, MaxMsgId}
\* lists of text fields: none, "a", "a","b", "vw","1","1", "h","80", "Gé"
FieldLists ==
  {<<>>, <<<<97>>>>, <<<<97>>, <<98>>>>, <<TextVw, <<49>>, <<49>>>>,
   <<<<104>>, <<56, 48>>>>, <<<<71, 233>>>>}

\* the triples (command, messageId, fields) to encode
Triples ==
  {[cmd |-> MSG_RSP, mid |-> m, args |-> <<st>>] : m \in MessageIds, st \in Statuses}
  \cup {[cmd |-> c, mid |-> m, args |-> f] :
          c \in Commands \ {MSG_RSP}, m \in MessageIds, f \in FieldLists}

\* a connected engine with an empty receive buffer, and a triple to encode
InitCodec ==
  /\ state = CONNECTED
  /\ msg_id = 2
  /\ lastRecv = 0 /\ lastSend = 0 /\ lastPing = 0
  /\ bin = <<>>
  /\ conn = [id |-> 1, open |-> TRUE]
  /\ conns = 1
  /\ backoff = 1
  /\ server = Blank.server
  /\ cbks = on(Blank, EvRedirect, "redirect").cbks
  /\ now = 0 /\ ticks = 0 /\ rx = 0 /\ appSends = 0
  /\ heard = 0 /\ faulted = FALSE /\ drops = 0 /\ threads = <<>>
  /\ \E t \in Triples : call = [op |-> "triple", arg |-> t, at |-> 0]
  /\ pre = Blank
  /\ trace = <<>>

\* _send(cmd, *fields, id=mid) builds the frame and hands it to the transport
Encode ==
  /\ call.op = "triple"
  /\ Leave(send(Enter(Fields, Unlimited, 0), call.arg.cmd, call.arg.args,
                <<call.arg.mid>>), "encoded", call.arg, Fields)
  /\ UNCHANGED <<now, ticks, rx, appSends>>

\* those bytes are delivered to process()
Decode ==
  /\ call.op = "encoded"
  /\ Leave(process(Enter(Fields, Unlimited, 0), trace[1].data), "decoded",
           call.arg, Fields)
  /\ UNCHANGED <<now, ticks, rx, appSends>>

NextCodec == Encode \/ Decode

SpecCodec == InitCodec /\ [][NextCodec]_vars

\* C10: the bytes _send() builds for (command, messageId, fields), fed to the
\* decoder of process(), yield exactly one frame with the same command, the
\* same messageId and the same fields (for RESPONSE: the same status code),
\* and leave the receive buffer empty.
C10_RoundTrip ==
  call.op = "decoded" =>
    /\ Cardinality(Idx(trace, "frame")) = 1
    /\ \A i \in Idx(trace, "frame") :
         /\ trace[i].cmd = call.arg.cmd
         /\ trace[i].mid = call.arg.mid
         /\ IF call.arg.cmd = MSG_RSP
            THEN trace[i].dlen = call.arg.args[1]
            ELSE trace[i].args = call.arg.args
    /\ bin = <<>>

\* ------------------------------------------------------------ a session
\* sockets opened, over all connect() calls explored in a session
MaxConns == 2

\* frames a logged-in session receives: ["vw","5","123"], ["vw","1","0","7"]
\* (two values), ["vw","9"] (no value)
Vw5Frame == EncodeFrame(MSG_HW, 4, <<TextVw, <<53>>, <<49, 50, 51>>>>)
VwTwoFrame == EncodeFrame(MSG_HW, 5, <<TextVw, <<49>>, <<48>>, <<55>>>>)
VwBareFrame == EncodeFrame(MSG_HW, 6, <<TextVw, <<57>>>>)

SessionChunks ==
  {VwFrame, Vw5Frame, VwTwoFrame, VwBareFrame, PingFrame, VwFrame \o Vw5Frame}

SessionReads ==
  {[kind |-> "timeout", data |-> <<>>], [kind |-> "error", data |-> <<>>]}
  \cup {[kind |-> "data", data |-> c] : c \in SessionChunks}

\* handlers the application has registered when the session starts: none,
\* one for "V1" that returns, one for "V1" that raises, one for "V*"
SessionHandlers ==
  {<<>>, <<<<PrefixV \o <<49>>, "ok">>>>, <<<<PrefixV \o <<49>>, "raise">>>>,
   <<<<EvVStar, "ok">>>>}

\* the engine after the constructor, still Connecting
JustConstructed == [Constructed(Unlimited, 0) EXCEPT !.trace = <<>>]

\* the engine after the service loop has read the login response and the
\* bytes the decoder takes with it: Connected, the receive buffer empty
LoggedIn ==
  [run(JustConstructed, [kind |-> "data", data |-> RspOk \o Filler])
     EXCEPT !.trace = <<>>]

InitSession ==
  \E base \in {JustConstructed, LoggedIn}, hs \in SessionHandlers :
    LET r == IF hs = <<>> THEN base ELSE on(base, hs[1][1], hs[1][2]) IN
    /\ state = r.state
    /\ msg_id = r.msg_id
    /\ lastRecv = r.lastRecv
    /\ lastSend = r.lastSend
    /\ lastPing = r.lastPing
    /\ bin = r.bin
    /\ conn = r.conn
    /\ conns = r.conns
    /\ backoff = r.backoff
    /\ server = r.server
    /\ cbks = r.cbks
    /\ trace = <<>>
    /\ call = [op |-> "session", arg |-> <<>>, at |-> 0]
    /\ pre = Blank
    /\ now = 0 /\ ticks = 0 /\ rx = 0 /\ appSends = 0
    /\ heard = 0 /\ faulted = FALSE /\ drops = 0 /\ threads = <<>>

\* one tick of the service loop in a session
Receive ==
  \E rd \in SessionReads, w \in WriteBudgets :
    /\ ~conn.open => rd.kind = "error"
    /\ rd.kind = "data" => rx < MaxRx
    /\ rx' = IF rd.kind = "data" THEN rx + 1 ELSE rx
    /\ Leave(run(Enter(Fields, w, 0), rd), "run", rd, Fields)
    /\ UNCHANGED <<now, ticks, appSends>>

\* the application calls the engine's public connect()
Connect ==
  \E w \in WriteBudgets :
    /\ conns < MaxConns
    /\ Leave(connect(Enter(Fields, w, 0)), "connect", <<>>, Fields)
    /\ UNCHANGED <<now, ticks, rx, appSends>>

NextSession == Tick \/ Receive \/ Connect \/ VirtualWrite

SpecSession == InitSession /\ [][NextSession]_vars

\* the trace indices that belong to the frame decoded at trace[i]: up to the
\* next decoded frame
Segment(tr, i) ==
  {j \in (i + 1)..Len(tr) : \A m \in Idx(tr, "frame") : m > i => j < m}

\* C11: for every HARDWARE frame ["vw", pin, v1..vn] decoded while the state is
\* Connected, process() emits "V"+pin with the one argument [v1..vn] first and
\* "V*" with the arguments (pin, [v1..vn]) after it, each exactly once for
\* that frame, whether or not a handler is registered for "V"+pin.
C11_VirtualWriteDispatch ==
  \A i \in Idx(trace, "frame") :
    (/\ trace[i].cmd = MSG_HW /\ trace[i].ok /\ trace[i].st = CONNECTED
     /\ Len(trace[i].args) >= 2 /\ trace[i].args[1] = TextVw)
      => LET pin == trace[i].args[2]
             vals == [n \in 1..(Len(trace[i].args) - 2) |-> trace[i].args[n + 2]]
             em == {j \in Segment(trace, i) : trace[j].k = "emit"}
             vp == {j \in em : trace[j].evt = <<86>> \o pin}
             vs == {j \in em : trace[j].evt = <<86, 42>>}
         IN /\ Cardinality(vp) = 1 /\ Cardinality(vs) = 1
            /\ \A a \in vp, b \in vs :
                 /\ a = i + 1 /\ a < b
                 /\ trace[a].args = <<vals>>
                 /\ trace[b].args = <<pin, vals>>

\* C11 witness: one read brought ["vw","1","1"] and ["vw","5","123"] to a
\* Connected engine whose "V1" handler raises and which has no "V5" handler;
\* "V5" was emitted with ["123"] and "V*" with ("5", ["123"])
C11_Witness ==
  /\ call.op = "run" /\ pre.state = CONNECTED /\ state = CONNECTED
  /\ \E i \in Idx(trace, "cb") : trace[i].evt = <<86, 49>> /\ trace[i].raised
  /\ <<86, 53>> \notin DOMAIN cbks
  /\ \E i, j \in Idx(trace, "emit") :
       /\ i < j
       /\ trace[i].evt = <<86, 53>> /\ trace[i].args = <<<< <<49, 50, 51>> >>>>
       /\ trace[j].evt = <<86, 42>> /\ trace[j].args = << <<53>>, << <<49, 50, 51>> >> >>

\* ------------------------------------------------------------ threads
\* sends explored per thread
MaxThreadSends == 2

\* the threads that reach _send() on the one engine: blynk_loop (the ping of
\* process()), a web request handler and the reed-sensor callback (both
\* through safe_blynk_write -> virtual_write); nothing serialises them
ThreadNames == {"loop", "web", "reed"}

\* what a thread sends: [cmd, args]
ThreadSend(t) ==
  IF t = "loop" THEN [cmd |-> MSG_PING, args |-> <<>>]
  ELSE IF t = "web" THEN [cmd |-> MSG_HW, args |-> <<TextVw, StrInt(2), StrInt(1)>>]
  ELSE [cmd |-> MSG_HW, args |-> <<TextVw, StrInt(3), StrInt(1)>>]

Idle == [pc |-> "idle", mid |-> 0, ids |-> <<>>]

InitThreads ==
  \E r \in {LoggedIn} :
    /\ state = r.state
    /\ msg_id = r.msg_id
    /\ lastRecv = r.lastRecv
    /\ lastSend = r.lastSend
    /\ lastPing = r.lastPing
    /\ bin = r.bin
    /\ conn = r.conn
    /\ conns = r.conns
    /\ backoff = r.backoff
    /\ server = r.server
    /\ cbks = r.cbks
    /\ trace = <<>>
    /\ call = [op |-> "threads", arg |-> <<>>, at |-> 0]
    /\ pre = Blank
    /\ now = 0 /\ ticks = 0 /\ rx = 0 /\ appSends = 0
    /\ heard = 0 /\ faulted = FALSE /\ drops = 0
    /\ threads = [t \in ThreadNames |-> Idle]

\* a thread enters _send(): the loop thread when process() finds a ping due,
\* the others whenever the application writes a pin
EnterSend ==
  \E t \in ThreadNames :
    /\ threads[t].pc = "idle"
    /\ Len(threads[t].ids) < MaxThreadSends
    /\ state \in {CONNECTING, CONNECTED}
    /\ t = "loop" => (~TimedOut(Fields, now) /\ PingDue(Fields, now))
    /\ threads' = [threads EXCEPT ![t].pc = "read"]
    /\ call' = [op |-> "enter", arg |-> t, at |-> now]
    /\ pre' = Fields
    /\ trace' = <<>>
    /\ UNCHANGED <<state, msg_id, lastRecv, lastSend, lastPing, bin, conn, conns,
                   backoff, server, cbks, now, ticks, rx, appSends, heard, faulted,
                   drops>>

\* mid = getattr(self, 'msg_id', 1)
ReadId ==
  \E t \in ThreadNames :
    /\ threads[t].pc = "read"
    /\ threads' = [threads EXCEPT ![t].pc = "store", ![t].mid = msg_id]
    /\ call' = [op |-> "read", arg |-> t, at |-> now]
    /\ pre' = Fields
    /\ trace' = <<>>
    /\ UNCHANGED <<state, msg_id, lastRecv, lastSend, lastPing, bin, conn, conns,
                   backoff, server, cbks, now, ticks, rx, appSends, heard, faulted,
                   drops>>

\* self.msg_id = mid + 1 if mid < 0xFFFF else 1
StoreId ==
  \E t \in ThreadNames :
    /\ threads[t].pc = "store"
    /\ msg_id' = NextMsgId(threads[t].mid)
    /\ threads' = [threads EXCEPT ![t].pc = "write"]
    /\ call' = [op |-> "store", arg |-> t, at |-> now]
    /\ pre' = Fields
    /\ trace' = <<>>
    /\ UNCHANGED <<state, lastRecv, lastSend, lastPing, bin, conn, conns,
                   backoff, server, cbks, now, ticks, rx, appSends, heard, faulted,
                   drops>>

\* msg = struct.pack(...) + data; self.lastSend = gettime(); self._write(msg);
\* and, for the ping of process(), self.lastPing = now
WriteFrame ==
  \E t \in ThreadNames :
    /\ threads[t].pc = "write"
    /\ LET msg == EncodeFrame(ThreadSend(t).cmd, threads[t].mid, ThreadSend(t).args)
           r == write([Enter(Fields, Unlimited, 0) EXCEPT !.lastSend = now], msg)
       IN /\ state' = r.state
          /\ conn' = r.conn
          /\ lastSend' = r.lastSend
          /\ lastPing' = IF t = "loop" THEN now ELSE lastPing
          /\ trace' = r.trace
          /\ threads' = [threads EXCEPT ![t].pc = "idle",
                                        ![t].ids = Append(@, IdOf(msg))]
    /\ call' = [op |-> "write", arg |-> t, at |-> now]
    /\ pre' = Fields
    /\ UNCHANGED <<msg_id, lastRecv, bin, conns, backoff, server, cbks, now, ticks,
                   rx, appSends, heard, faulted, drops>>

NextThreads == Tick \/ EnterSend \/ ReadId \/ StoreId \/ WriteFrame

SpecThreads == InitThreads /\ [][NextThreads]_vars

\* the message ids a thread has written on the connection, with who wrote them
IssuedIds == {<<t, n>> : t \in ThreadNames, n \in 1..MaxThreadSends + 1}

\* C12: under every interleaving of the application's threads, no two frames
\* written on the same connection carry the same allocated message id.
C12_ThreadIds ==
  \A a, b \in IssuedIds :
    (/\ a # b
     /\ a[2] <= Len(threads[a[1]].ids)
     /\ b[2] <= Len(threads[b[1]].ids))
      => threads[a[1]].ids[a[2]] # threads[b[1]].ids[b[2]]

\* ------------------------------------------------------------ receive clock
\* C13: a process() call that decodes a frame leaves lastRecv at the time of
\* that call; and a connection whose last decoded frame (or whose connect) is
\* no more than 1.5 heartbeat intervals old is not closed by the hard timeout.
C13_ReceiveClock ==
  /\ (/\ ProcessCalled
      /\ Idx(trace, "frame") # {}
      /\ \A i \in Idx(trace, "frame") : trace[i].ok
      /\ Idx(trace, "raise") = {})
       => lastRecv = call.at
  /\ (/\ ProcessCalled
      /\ pre.state \in {CONNECTING, CONNECTED}
      /\ ~Over15(call.at - pre.heard))
       => ~TimedOut(pre, call.at)

\* ------------------------------------------------------------ protocol violation
\* the buffer process() works on starts with a header whose messageId is 0
ZeroIdFirst ==
  LET b == pre.bin \o call.arg.data
  IN Len(b) >= 5 /\ b[2] = 0 /\ b[3] = 0

\* C14: when process() runs in Connecting or Connected and the header at the
\* front of the receive buffer carries messageId 0, the call ends Disconnected
\* with "disconnected" emitted, emits no other event, decodes no frame and
\* raises no exception; a call that leaves such a header at the front of the
\* buffer ends Disconnected; and no frame with messageId 0 is ever decoded.
C14_ProtocolViolation ==
  /\ (ProcessCalled /\ pre.state \in {CONNECTING, CONNECTED} /\ ZeroIdFirst)
       => /\ state = DISCONNECTED
          /\ Emitted(trace, EvDisconnected) >= 1
          /\ \A i \in Idx(trace, "emit") : trace[i].evt = EvDisconnected
          /\ Idx(trace, "frame") = {}
          /\ Idx(trace, "raise") = {}
  /\ (/\ ProcessCalled /\ pre.state \in {CONNECTING, CONNECTED}
      /\ ZeroIdAhead /\ Idx(trace, "raise") = {})
       => (state = DISCONNECTED /\ Emitted(trace, EvDisconnected) >= 1)
  /\ \A i \in Idx(trace, "frame") : trace[i].mid # 0

\* C14 witness: the violation was met without a timeout, with a ping sent
\* first in the same call
C14_Witness ==
  /\ ProcessCalled /\ pre.state = CONNECTING /\ ZeroIdFirst
  /\ ~TimedOut(pre, call.at)
  /\ \E w \in Written(trace, MSG_PING) : trace[w].ok
  /\ state = DISCONNECTED /\ Emitted(trace, EvDisconnected) = 1

\* ------------------------------------------------------------ ping reply
\* the allocated ids a call used up: frames written that are neither replies
\* nor the login of a reconnect
Allocated(tr) == Cardinality({w \in Idx(tr, "write") : tr[w].data[1] # MSG_RSP})

\* C15: for every PING frame with message id m that process() decodes, the
\* next thing the engine does is hand one RESPONSE frame to the transport:
\* messageId m, length field 200, no payload; the call writes as many
\* RESPONSE frames as it decoded PING frames, and the replies leave the
\* message-id counter where it was (it moves only by the ids the call
\* allocated for its own frames).
C15_PingReply ==
  /\ \A i \in Idx(trace, "frame") :
       (trace[i].cmd = MSG_PING /\ trace[i].ok)
         => /\ i < Len(trace)
            /\ trace[i + 1].k = "write"
            /\ trace[i + 1].data = <<0, trace[i].mid \div 256, trace[i].mid % 256, 0, 200>>
  /\ Cardinality(Written(trace, MSG_RSP))
       = Cardinality({i \in Idx(trace, "frame") : trace[i].cmd = MSG_PING})
  /\ (call.op = "run" /\ Idx(trace, "connect") = {})
       => msg_id = pre.msg_id + Allocated(trace)

\* C15 witness: a PING with id 7 was answered and the counter did not move
C15_Witness ==
  /\ ProcessCalled /\ call.arg.data = PingFrame
  /\ \E w \in Written(trace, MSG_RSP) : trace[w].ok /\ trace[w].data = <<0, 0, 7, 0, 200>>
  /\ Written(trace, MSG_PING) = {}
  /\ msg_id = pre.msg_id /\ msg_id # 7 /\ msg_id # 8

\* ------------------------------------------------------------ connect() again
\* C16: the public connect() called while the state is Connecting or Connected
\* leaves the state, the message-id counter, lastRecv, lastSend, lastPing and
\* the transport connection as they were and hands no frame to the transport.
C16_ConnectNoOp ==
  (call.op = "connect" /\ pre.state \in {CONNECTING, CONNECTED})
    => /\ state = pre.state
       /\ msg_id = pre.msg_id
       /\ lastRecv = pre.lastRecv /\ lastSend = pre.lastSend /\ lastPing = pre.lastPing
       /\ conn = pre.conn
       /\ Idx(trace, "write") = {}
       /\ Idx(trace, "open") = {}

\* ------------------------------------------------------------ after a disconnect
\* self.state when trace[i] happened in the last call
StateAt(tr, i) ==
  LET st == {j \in Idx(tr, "state") : j < i}
  IN IF st = {} THEN pre.state
     ELSE tr[CHOOSE j \in st : \A m \in st : m <= j].v

\* the events process() emits for frames
FrameEvent(evt) == evt \notin {EvDisconnected, EvInvalidAuth}

\* C18: inside a process() call nothing happens while the state is
\* Disconnected: no frame is decoded, no "V<pin>", "V*", "internal:<name>",
\* "redirect" or "connected" event is emitted and no frame is written.
C18_QuietWhenDisconnected ==
  ProcessCalled =>
    \A i \in 1..Len(trace) :
      StateAt(trace, i) = DISCONNECTED
        => /\ trace[i].k # "frame"
           /\ (trace[i].k = "emit" => ~FrameEvent(trace[i].evt))
           /\ (trace[i].k = "write" => ~trace[i].ok)

\* C19: "disconnected" is emitted at most once between one transition into
\* Connecting and the next.
C19_OneDisconnected == drops <= 1

\* C20: whenever connect() runs in state Disconnected, and so moves the state
\* to Connecting, the receive buffer is empty.
C20_CleanBuffer ==
  \A i \in Idx(trace, "connect") :
    trace[i].st = DISCONNECTED => trace[i].bin = <<>>

\* ------------------------------------------------------------ partial frames
\* frames in a stream
MaxStreamFrames == 3

\* the frames a stream is made of, all with non-zero message ids
StreamFrames == {RspOk, RspInvalid, PingFrame, VwFrame, RedirectFrame}

RECURSIVE Concat(_)
\* the bytes of a sequence of frames
Concat(fs) == IF fs = <<>> THEN <<>> ELSE Head(fs) \o Concat(Tail(fs))

\* the streams: one to MaxStreamFrames frames, as sequences of frames
Streams == UNION {[1..n -> StreamFrames] : n \in 1..MaxStreamFrames}

\* a decoded frame or something the engine put out: an event, or a reply frame
\* handed to the transport
IsOutput(x) ==
  \/ x.k = "frame"
  \/ x.k = "emit"
  \/ (x.k = "write" /\ x.data[1] = MSG_RSP)

\* what the engine decoded and put out in a call, in order
Outputs(tr) == SelectSeq(tr, IsOutput)

\* the whole stream delivered to one process() call of the engine just
\* constructed, on a transport that takes w writes
Whole(bytes, w) == process([JustConstructed EXCEPT !.wok = w], bytes)

\* an engine just constructed, a stream to deliver and a transport that
\* accepts every write or none
InitSplit ==
  \E r \in {JustConstructed}, fs \in Streams, w \in {0, Unlimited} :
    /\ state = r.state
    /\ msg_id = r.msg_id
    /\ lastRecv = r.lastRecv
    /\ lastSend = r.lastSend
    /\ lastPing = r.lastPing
    /\ bin = r.bin
    /\ conn = r.conn
    /\ conns = r.conns
    /\ backoff = r.backoff
    /\ server = r.server
    /\ cbks = r.cbks
    /\ trace = <<>>
    /\ call = [op |-> "stream",
               arg |-> [frames |-> fs, bytes |-> Concat(fs), w |-> w, sent |-> 0,
                        chunk |-> <<>>, out |-> <<>>],
               at |-> 0]
    /\ pre = Blank
    /\ now = 0 /\ ticks = 0 /\ rx = 0 /\ appSends = 0
    /\ heard = 0 /\ faulted = FALSE /\ drops = 0 /\ threads = <<>>

\* the next n bytes of the stream are delivered to process()
Deliver ==
  \E n \in 1..(Len(call.arg.bytes) - call.arg.sent) :
    LET chunk == SubSeq(call.arg.bytes, call.arg.sent + 1, call.arg.sent + n)
        r == process(Enter(Fields, call.arg.w, 0), chunk)
    IN /\ Leave(r, "deliver",
                [call.arg EXCEPT !.sent = @ + n, !.chunk = chunk,
                                 !.out = @ \o Outputs(r.trace)],
                Fields)
       /\ UNCHANGED <<now, ticks, rx, appSends>>

NextSplit == Deliver

SpecSplit == InitSplit /\ [][NextSplit]_vars

\* chunked and whole delivery of a stream make the engine decode, emit and
\* reply the same
ChunkedAsWhole ==
  call.arg.out = Outputs(Whole(call.arg.bytes, call.arg.w).trace)

\* C17: a process() call in Connecting or Connected that decodes no frame
\* keeps the bytes it was given at the end of the receive buffer and emits and
\* writes nothing; and once a stream of frames has been delivered in chunks,
\* what the engine decoded, emitted and replied is what it decodes, emits and
\* replies when the stream is delivered in one call, and the frames decoded
\* are the frames of the stream, each once and in order.
C17_PartialFrames ==
  call.op = "deliver" =>
    /\ (pre.state \in {CONNECTING, CONNECTED} /\ Idx(trace, "frame") = {})
         => /\ bin = pre.bin \o call.arg.chunk
            /\ Idx(trace, "emit") = {}
            /\ Idx(trace, "write") = {}
    /\ call.arg.sent = Len(call.arg.bytes)
         => /\ ChunkedAsWhole
            /\ LET fr == SelectSeq(call.arg.out, LAMBDA x : x.k = "frame")
               IN /\ Len(fr) = Len(call.arg.frames)
                  /\ \A i \in 1..Len(fr) :
                       /\ fr[i].cmd = call.arg.frames[i][1]
                       /\ fr[i].mid = IdOf(call.arg.frames[i])

====
